---- MODULE Spec2Model ----
(***************************************************************************)
(* Model of pkg/subscriber/github/subscriber_item.go: the GitHub           *)
(* SubscriberItem.  An item owns a stop channel, the last processed commit *)
(* id and (once started) a periodic task that runs doSubscription.         *)
(*                                                                         *)
(* Spec          the item driven by one controller goroutine: Start and    *)
(*               Stop calls do not overlap one another, the periodic task  *)
(*               runs its cycle step by step.                              *)
(* SpecRace      Start called from several goroutines; its check of stopch *)
(*               and its assignment are separate steps.                    *)
(* SpecClassify  sortClonedGitRepo applied to every bounded directory      *)
(*               tree.                                                     *)
(***************************************************************************)
EXTENDS Integers, Sequences, FiniteSets, TLC

VARIABLES
    cfg,        \* Subscription / Channel fields the code reads
    stage,      \* directory tree at repoRoot (the staging path)
    stopch,     \* ghsi.stopch : 0 is nil, otherwise a channel id
    closed,     \* channel ids that have been closed
    crashed,    \* the process died of a panic
    commitID,   \* ghsi.commitID : 0 is the empty string
    inStart,    \* per caller: has passed the nil check of Start
    taskch,     \* per periodic task: the channel it was given, 0 = not launched
    pc,         \* per periodic task: position inside wait.Until / doSubscription
    cur,        \* per periodic task: locals and collaborator calls of the cycle
    prev,       \* per periodic task: summary of the cycle before the current one
    faults,     \* steps so far in which collaborator calls have failed
    lastCall    \* the call made last on the item: "Start", "Stop", or "none"

vars == <<cfg, stage, stopch, closed, crashed, commitID, inStart, taskch, pc, cur, prev, faults, lastCall>>

(***************************************************************************)
(* Bounds                                                                  *)
(***************************************************************************)
NumCallers == 2
NumCommits == 2
MaxDirs == 3
MaxFailures == 1
MaxCharts == 2
MaxFiles == 1

Callers == 1..NumCallers
Tasks == 1..NumCallers
CommitIDs == 1..NumCommits

(***************************************************************************)
(* Strings (Go's strings and path/filepath packages)                       *)
(***************************************************************************)
HasPrefix(s, p) == Len(p) <= Len(s) /\ SubSeq(s, 1, Len(p)) = p

\* strings.Index + 1 : position of the first occurrence of sub in s, 0 if none
IndexOf(s, sub) ==
    LET hits == {i \in 1..(Len(s) - Len(sub) + 1) : SubSeq(s, i, i + Len(sub) - 1) = sub}
    IN  IF hits = {} THEN 0 ELSE CHOOSE i \in hits : \A j \in hits : i <= j

\* strings.Split(s, sep)[0]
SplitFirst(s, sep) ==
    CHOOSE part \in {IF i = 0 THEN s ELSE SubSeq(s, 1, i - 1) : i \in {IndexOf(s, sep)}} : TRUE

\* the first element of strings.SplitAfter(rest, sep)
UpToSep(rest, sep) ==
    CHOOSE part \in {IF j = 0 THEN rest ELSE SubSeq(rest, 1, j + Len(sep) - 1) :
                        j \in {IndexOf(rest, sep)}} : TRUE

\* strings.SplitAfter(s, sep)[1] ; "PANIC" when the slice has one element only
SplitAfterSecond(s, sep) ==
    CHOOSE part \in {IF i = 0 THEN "PANIC" ELSE UpToSep(rest, sep) :
                        <<i, rest>> \in {<<IndexOf(s, sep), SubSeq(s, IndexOf(s, sep) + Len(sep), Len(s))>>}} : TRUE

(***************************************************************************)
(* The staging path and directory trees.  A directory is the sequence of   *)
(* names leading to it from repoRoot; <<>> is repoRoot itself.             *)
(***************************************************************************)
TempDir == "/tmp"
ChannelNamespace == "ch-ns"
ChannelName == "ch"
SubscriptionName == "sub"
SubscriptionNamespace == "sub-ns"

\* directory names, in the byte order filepath.Walk lists them
DirNames == <<".git", ".github", "a", "demo", "web">>
GitDir == ".git"

NameSet == {DirNames[i] : i \in 1..Len(DirNames)}
Rank(n) == CHOOSE i \in 1..Len(DirNames) : DirNames[i] = n

RECURSIVE Join(_)
Join(d) == IF d = <<>> THEN "" ELSE "/" \o Head(d) \o Join(Tail(d))

RepoRootPath == TempDir \o "/" \o ChannelNamespace \o "/" \o ChannelName

PathOf(d) == RepoRootPath \o Join(d)

IsPrefixDir(d, e) == Len(d) <= Len(e) /\ SubSeq(e, 1, Len(d)) = d

\* filepath.Walk visits d before e
WalkBefore(d, e) ==
    \/ d # e /\ IsPrefixDir(d, e)
    \/ \E i \in 1..Len(d) :
          /\ i <= Len(e)
          /\ SubSeq(d, 1, i - 1) = SubSeq(e, 1, i - 1)
          /\ Rank(d[i]) < Rank(e[i])

\* (the directory visited first is bound by a quantifier so that it is
\* computed once per level)
RECURSIVE WalkOrder(_)
WalkOrder(S) ==
    IF S = {} THEN <<>>
    ELSE CHOOSE order \in {<<first>> \o WalkOrder(S \ {first}) :
                               first \in {d \in S : \A e \in S \ {d} : WalkBefore(d, e)}} : TRUE

\* filepath.Base
RECURSIVE StripSlash(_)
StripSlash(s) ==
    IF Len(s) > 1 /\ SubSeq(s, Len(s), Len(s)) = "/"
    THEN StripSlash(SubSeq(s, 1, Len(s) - 1)) ELSE s

Base(s) ==
    LET t == StripSlash(s)
        slashes == {i \in 1..Len(t) : SubSeq(t, i, i) = "/"}
        last == IF slashes = {} THEN 0 ELSE CHOOSE i \in slashes : \A j \in slashes : j <= i
    IN  IF t = "/" THEN t ELSE SubSeq(t, last + 1, Len(t))

(***************************************************************************)
(* Versions (semver.Parse, and the order helm's SortEntries uses)          *)
(***************************************************************************)
DigitChars == <<"0", "1", "2", "3", "4", "5", "6", "7", "8", "9">>
IsDigit(c) == \E i \in 1..10 : DigitChars[i] = c
DigitVal(c) == (CHOOSE i \in 1..10 : DigitChars[i] = c) - 1

RECURSIVE ParseNumber(_, _)
ParseNumber(s, acc) ==
    IF s = "" THEN acc
    ELSE IF ~IsDigit(SubSeq(s, 1, 1)) THEN -1
    ELSE ParseNumber(SubSeq(s, 2, Len(s)), acc * 10 + DigitVal(SubSeq(s, 1, 1)))

\* strings.Split(s, sep) for a one-character separator
RECURSIVE SplitOn(_, _)
SplitOn(s, sep) ==
    IF IndexOf(s, sep) = 0 THEN <<s>>
    ELSE <<SubSeq(s, 1, IndexOf(s, sep) - 1)>> \o SplitOn(SubSeq(s, IndexOf(s, sep) + 1, Len(s)), sep)

\* <<major, minor, patch>>, or <<>> when s does not parse
ParseSemver(s) ==
    LET parts == SplitOn(s, ".")
    IN  IF Len(parts) # 3 THEN <<>>
        ELSE IF \E i \in 1..3 : parts[i] = "" \/ ParseNumber(parts[i], 0) < 0 THEN <<>>
        ELSE <<ParseNumber(parts[1], 0), ParseNumber(parts[2], 0), ParseNumber(parts[3], 0)>>

SemverLess(a, b) ==
    \/ a[1] < b[1]
    \/ a[1] = b[1] /\ a[2] < b[2]
    \/ a[1] = b[1] /\ a[2] = b[2] /\ a[3] < b[3]

SortsBeforeAscending(a, b) ==
    /\ ParseSemver(a.version) # <<>>
    /\ ParseSemver(b.version) # <<>>
    /\ SemverLess(ParseSemver(a.version), ParseSemver(b.version))

\* a chart version sorts before b in the index: greater version first,
\* versions that do not parse last
SortsBefore(a, b) ==
    LET va == ParseSemver(a.version)
        vb == ParseSemver(b.version)
    IN  IF va = <<>> THEN FALSE
        ELSE IF vb = <<>> THEN TRUE
        ELSE SemverLess(vb, va)

RECURSIVE SortVersions(_)
SortVersions(S) ==
    IF S = {} THEN <<>>
    ELSE LET first == CHOOSE a \in S : \A b \in S \ {a} : ~SortsBefore(b, a)
         IN  <<first>> \o SortVersions(S \ {first})

(***************************************************************************)
(* sortClonedGitRepo: the walk that classifies directories                 *)
(*   tree.dirs    directories present under repoRoot                       *)
(*   tree.charts  chart metadata of the directories holding a Chart.yaml   *)
(*   tree.files   manifest files                                           *)
(***************************************************************************)
NoChartDir == "NONE"

\* the callback of filepath.Walk, for a directory
Visit(tree, d, st) ==
    LET path == PathOf(d)
    IN  IF d \in DOMAIN tree.charts
        THEN IF ~HasPrefix(path, st.currentChartDir)
             THEN [st EXCEPT !.chartDirs = @ \cup {path \o "/"},
                             !.currentChartDir = path \o "/"]
             ELSE st
        ELSE IF ~HasPrefix(path, st.currentChartDir)
                /\ ~HasPrefix(path, RepoRootPath \o "/.git")
             THEN [st EXCEPT !.resourceDirs = @ \cup {path \o "/"}]
             ELSE st

RECURSIVE WalkDirs(_, _, _)
WalkDirs(tree, order, st) ==
    IF order = <<>> THEN st
    ELSE CHOOSE end \in {WalkDirs(tree, rest, next) :
                             rest \in {Tail(order)}, next \in {Visit(tree, Head(order), st)}} : TRUE

\* chartDirs and resourceDirs after the walk from resourcePath
Classify(tree, resourcePath) ==
    CHOOSE end \in {WalkDirs(tree, order,
                             [chartDirs |-> {}, resourceDirs |-> {}, currentChartDir |-> NoChartDir]) :
                        order \in {WalkOrder({d \in tree.dirs : IsPrefixDir(resourcePath, d)})}} : TRUE

DirOfKey(tree, key) == CHOOSE d \in tree.dirs : PathOf(d) \o "/" = key

(***************************************************************************)
(* sortClonedGitRepo: the chart index                                      *)
(***************************************************************************)
ChartBaseDir(chartDir) ==
    CHOOSE baseDir \in {SplitAfterSecond(chartParentDir, RepoRootPath \o "/") :
                           chartParentDir \in {SplitFirst(chartDir, Base(chartDir))}} : TRUE

\* the record indexFile.Add appends for one chart directory
ChartVersionOf(tree, chartDir) ==
    LET md == tree.charts[DirOfKey(tree, chartDir)]
    IN  [name |-> md.name, version |-> md.version, tiller |-> md.tiller,
         url |-> ChartBaseDir(chartDir) \o Base(chartDir)]

\* indexFile after the Add loop and SortEntries
BuildIndex(tree, chartDirs) ==
    LET recs == {ChartVersionOf(tree, c) : c \in chartDirs}
        names == {r.name : r \in recs}
    IN  [n \in names |-> SortVersions({r \in recs : r.name = n})]

(***************************************************************************)
(* semver.ParseRange: comparators separated by spaces, all of which must   *)
(* hold (the "||" alternative of the library is outside the model and is   *)
(* reported as a parse error).                                             *)
(***************************************************************************)
RangeOps == <<">=", "<=", "!=", ">", "<", "=">>

\* the operator a comparator starts with, "" if it starts with the version
OpOf(tok) ==
    LET hits == {i \in 1..Len(RangeOps) : HasPrefix(tok, RangeOps[i])}
    IN  IF hits = {} THEN "" ELSE RangeOps[CHOOSE i \in hits : \A j \in hits : i <= j]

ParseComparator(tok) ==
    [op |-> OpOf(tok), v |-> ParseSemver(SubSeq(tok, Len(OpOf(tok)) + 1, Len(tok)))]

ParseRange(s) ==
    LET toks == SelectSeq(SplitOn(s, " "), LAMBDA t : t # "")
        cmps == [i \in 1..Len(toks) |-> ParseComparator(toks[i])]
    IN  [ok |-> Len(toks) > 0 /\ \A i \in 1..Len(toks) : cmps[i].v # <<>>, cmps |-> cmps]

Compare(op, v, w) ==
    IF op = ">=" THEN ~SemverLess(v, w)
    ELSE IF op = "<=" THEN ~SemverLess(w, v)
    ELSE IF op = ">" THEN SemverLess(w, v)
    ELSE IF op = "<" THEN SemverLess(v, w)
    ELSE IF op = "!=" THEN v # w
    ELSE v = w

InRange(r, v) == \A i \in 1..Len(r.cmps) : Compare(r.cmps[i].op, v, r.cmps[i].v)

(***************************************************************************)
(* filterCharts                                                            *)
(*   cfg.hasFilter    Subscription.Spec.PackageFilter != nil               *)
(*   cfg.package      Subscription.Spec.Package                            *)
(*   cfg.version      PackageFilter.Version                                *)
(*   cfg.annotations  PackageFilter.Annotations                            *)
(***************************************************************************)
checkTillerVersion(c, chartVersion) ==
    IF c.hasFilter /\ "tillerVersion" \in DOMAIN c.annotations /\ chartVersion.tiller # ""
    THEN /\ ParseRange(chartVersion.tiller).ok
         /\ ParseSemver(c.annotations["tillerVersion"]) # <<>>
         /\ InRange(ParseRange(chartVersion.tiller), ParseSemver(c.annotations["tillerVersion"]))
    ELSE TRUE

checkVersion(c, chartVersion) ==
    IF c.hasFilter /\ c.version # ""
    THEN /\ ParseSemver(chartVersion.version) # <<>>
         /\ ParseRange(c.version).ok
         /\ InRange(ParseRange(c.version), ParseSemver(chartVersion.version))
    ELSE TRUE

filterOnVersion(c, index) ==
    LET Keep(cv) == checkTillerVersion(c, cv) /\ checkVersion(c, cv)
        kept == [k \in DOMAIN index |-> SelectSeq(index[k], Keep)]
    IN  [k \in {n \in DOMAIN index : kept[n] # <<>>} |-> kept[k]]

keepEveryName(c, index) == index

\* the entries left by removeNoMatchingName when a package name is declared
removeNoMatchingName(c, index) ==
    [k \in {n \in DOMAIN index : n = c.package} |-> index[k]]

\* with no package name removeNoMatchingName fails and the index is left as is
filterCharts(c, index) ==
    IF c.package # ""
    THEN filterOnVersion(c, removeNoMatchingName(c, index))
    ELSE index

(***************************************************************************)
(* Resources                                                               *)
(***************************************************************************)
SupportedKinds == {"ConfigMap", "Service"}

\* utils.LabelChecker for a selector made of matchLabels
LabelChecker(selector, labels) ==
    \A k \in DOMAIN selector : k \in DOMAIN labels /\ labels[k] = selector[k]

\* TRUE when checkFilters returns the empty message
checkFilters(c, rsc) ==
    IF c.package # "" /\ c.package # rsc.name THEN FALSE
    ELSE IF ~LabelChecker(c.labels, rsc.labels) THEN FALSE
    ELSE \A k \in DOMAIN c.annotations :
            (IF k \in DOMAIN rsc.annotations THEN rsc.annotations[k] ELSE "") = c.annotations[k]

\* the name prefix of a deployable: the channel when one is bound
DplPrefix(c) == IF ~c.channel THEN SubscriptionName ELSE ChannelName

ResourceDplName(c, rsc) == DplPrefix(c) \o "-" \o rsc.kind \o "-" \o rsc.name

ChartDplName(c, packageName, chartVersion) ==
    DplPrefix(c) \o "-" \o packageName \o "-" \o chartVersion.version

(***************************************************************************)
(* Inputs: the repository content behind each commit id, the item          *)
(* configurations                                                          *)
(***************************************************************************)
NoMap == [k \in {} |-> ""]
EmptyIndex == [k \in {} |-> <<>>]

Manifest(fname, kind, name) ==
    [fname |-> fname, regular |-> TRUE, ext |-> ".yaml", apiVersion |-> "v1",
     kind |-> kind, name |-> name, labels |-> NoMap, annotations |-> NoMap]

Chart(name, version) == [name |-> name, version |-> version, tiller |-> ""]

\* nothing at repoRoot
NoTree == [dirs |-> {}, charts |-> [d \in {} |-> Chart("", "")], files |-> [d \in {} |-> <<>>]]

\* one ConfigMap manifest and one chart directory
Repo1 ==
    [dirs |-> {<<>>, <<".git">>, <<"demo">>},
     charts |-> [d \in {<<"demo">>} |-> Chart("demo", "1.0.0")],
     files |-> [d \in {<<>>} |-> <<Manifest("cfg.yaml", "ConfigMap", "cfg")>>]]

\* two resource directories and two charts
Repo2 ==
    [dirs |-> {<<>>, <<".git">>, <<"a">>, <<"demo">>, <<"web">>},
     charts |-> [d \in {<<"demo">>, <<"web">>} |->
                    IF d = <<"demo">> THEN Chart("demo", "2.0.0") ELSE Chart("web", "1.0.0")],
     files |-> [d \in {<<>>, <<"a">>} |->
                    IF d = <<>> THEN <<Manifest("cfg.yaml", "ConfigMap", "cfg")>>
                    ELSE <<Manifest("svc.yaml", "Service", "svc")>>]]

Repo(id) == IF id = 1 THEN Repo1 ELSE Repo2

\* ioutil.ReadDir(dir): the manifest files of a directory, by name
FilesIn(tree, d) == IF d \in DOMAIN tree.files THEN tree.files[d] ELSE <<>>

BaseConfig ==
    [channel |-> TRUE, hasFilter |-> TRUE, package |-> "", version |-> "",
     annotations |-> NoMap, labels |-> NoMap, subPath |-> <<>>]

Configs ==
    { BaseConfig,
      [BaseConfig EXCEPT !.hasFilter = FALSE],
      [BaseConfig EXCEPT !.channel = FALSE],
      [BaseConfig EXCEPT !.package = "demo"] }

(***************************************************************************)
(* The locals of one doSubscription call, with the calls it has made       *)
(***************************************************************************)
NewCycle(stored) ==
    [start |-> stored,       \* ghsi.commitID when the cycle began
     id |-> 0,               \* commitID returned by cloneGitRepo
     gate |-> "none",        \* "open" / "skip" : outcome of the comparison
     calls |-> <<>>,         \* collaborator calls made so far
     chartDirs |-> {}, rscDirs |-> {}, index |-> EmptyIndex,
     dirsLeft |-> {},        \* resource directories not listed yet
     files |-> <<>>,         \* files of the listed directory not handled yet
     valid |-> {},           \* kvalid : names given to AddValidResource
     rscPkgMap |-> {},       \* pkgMap of subscribeResources
     chartPkgMap |-> {},     \* pkgMap of subscribeHelmCharts
     left |-> {},            \* index entries not iterated yet
     err |-> "nil",          \* the named result err of subscribeHelmCharts
     clean |-> TRUE,         \* no call has failed so far
     outcome |-> "running"]

CallSet(op, name, arg, set, ok) == [op |-> op, name |-> name, arg |-> arg, set |-> set, ok |-> ok]
Call(op, name, arg, ok) == CallSet(op, name, arg, {}, ok)

\* what is remembered of the preceding cycle: the id it fetched, whether it
\* processed the repository with every call succeeding, whether it failed
\* partway (an error ended it, or its resource pass was cut short)
Summary(c) ==
    [id |-> c.id, clean |-> c.gate = "open" /\ c.clean,
     failed |-> c.outcome \in {"fetch-error", "sort-error", "chart-error"}
                \/ (c.outcome = "committed" /\ \A i \in 1..Len(c.calls) : c.calls[i].op # "applyValidator")]

CallsOf(c, op) == {i \in 1..Len(c.calls) : c.calls[i].op = op}

(***************************************************************************)
(* Start and Stop                                                          *)
(***************************************************************************)
AlreadyStartedAndRunning(ch) == ch # 0 /\ ch \notin closed

\* the guard of Start: "do nothing if already started"
AlreadyStarted(ch) == ch # 0

NumLaunched == Cardinality({t \in Tasks : taskch[t] # 0})

\* ghsi.stopch = make(chan struct{}) ; go wait.Until(..., ghsi.stopch)
Launch ==
    LET n == NumLaunched + 1
    IN  /\ stopch' = n
        /\ taskch' = [taskch EXCEPT ![n] = n]
        /\ pc' = [pc EXCEPT ![n] = "idle"]

\* a panic that nothing recovers ends the process
Panic ==
    /\ crashed' = TRUE
    /\ UNCHANGED <<cfg, stage, stopch, closed, commitID, inStart, taskch, pc, cur, prev, faults>>

Called(op) == lastCall' = op

\* a panic inside the doSubscription call of task t
PanicIn(t) ==
    /\ crashed' = TRUE
    /\ cur' = [cur EXCEPT ![t].outcome = "panic"]
    /\ UNCHANGED <<cfg, stage, stopch, closed, commitID, inStart, taskch, pc, prev, faults, lastCall>>

\* Start, called while no other Start call is running
Start ==
    /\ ~crashed
    /\ \A c \in Callers : ~inStart[c]
    /\ Called("Start")
    /\ IF AlreadyStarted(stopch)
       THEN UNCHANGED <<cfg, stage, stopch, closed, crashed, commitID, inStart, taskch, pc, cur, prev, faults>>
       ELSE /\ Launch
            /\ UNCHANGED <<cfg, stage, closed, crashed, commitID, inStart, cur, prev, faults>>

\* Start called by goroutine c: the check of ghsi.stopch
StartCheck(c) ==
    /\ ~crashed
    /\ ~inStart[c]
    /\ Called("Start")
    /\ IF AlreadyStarted(stopch)
       THEN UNCHANGED <<cfg, stage, stopch, closed, crashed, commitID, inStart, taskch, pc, cur, prev, faults>>
       ELSE /\ inStart' = [inStart EXCEPT ![c] = TRUE]
            /\ UNCHANGED <<cfg, stage, stopch, closed, crashed, commitID, taskch, pc, cur, prev, faults>>

\* Start called by goroutine c: the assignment and the go statement
StartLaunch(c) ==
    /\ ~crashed
    /\ inStart[c]
    /\ Launch
    /\ inStart' = [inStart EXCEPT ![c] = FALSE]
    /\ UNCHANGED <<cfg, stage, closed, crashed, commitID, cur, prev, faults, lastCall>>

\* close(ghsi.stopch): closing a nil or a closed channel panics
Stop ==
    /\ ~crashed
    /\ Called("Stop")
    /\ IF stopch = 0 \/ stopch \in closed
       THEN Panic
       ELSE /\ closed' = closed \cup {stopch}
            /\ UNCHANGED <<cfg, stage, stopch, crashed, commitID, inStart, taskch, pc, cur, prev, faults>>

(***************************************************************************)
(* The periodic task: wait.Until calls doSubscription until its channel is *)
(* closed                                                                  *)
(***************************************************************************)
Failures(c) == Cardinality({i \in 1..Len(c.calls) : ~c.calls[i].ok})

\* task t moves on with the locals c; a step in which collaborator calls
\* have failed (c records failed calls that cur[t] does not) is one more fault
Step(t, from, to, c) ==
    /\ ~crashed
    /\ pc[t] = from
    /\ faults' = faults + (IF Failures(c) > 0 /\ Failures(c) # Failures(cur[t]) THEN 1 ELSE 0)
    /\ faults' <= MaxFailures
    /\ pc' = [pc EXCEPT ![t] = to]
    /\ cur' = [cur EXCEPT ![t] = c]

Ended(c, outcome) == [c EXCEPT !.outcome = outcome]
Failed(c, outcome) == [c EXCEPT !.outcome = outcome, !.clean = FALSE]
Logged(c, call) == [c EXCEPT !.calls = Append(@, call), !.clean = @ /\ call.ok]

StopChannelIgnored(ch) == TRUE

\* wait.Until goes on as long as the channel it was given is not closed
StopChannelOpen(ch) == ch \notin closed

\* the timer fires and the stop channel is still open
TimerFire(t) ==
    /\ taskch[t] # 0
    /\ StopChannelOpen(taskch[t])
    /\ Step(t, "idle", "clone", NewCycle(commitID))
    /\ prev' = [prev EXCEPT ![t] = Summary(cur[t])]
    /\ UNCHANGED <<cfg, stage, stopch, closed, crashed, commitID, inStart, taskch, lastCall>>

GateOpenAlways(fetched, stored) == TRUE

\* the comparison of doSubscription
GateOpen(fetched, stored) == fetched # stored

\* cloneGitRepo and the comparison with ghsi.commitID; head is the commit
\* the remote master branch points to when it is fetched
CloneGitRepo(t) ==
    /\ ~crashed
    /\ pc[t] = "clone"
    /\ IF ~cfg.channel
       THEN PanicIn(t)
       ELSE /\ \/ \E head \in CommitIDs :
                    /\ stage' = Repo(head)
                    /\ LET c == [Logged(cur[t], Call("fetch", "", "", TRUE)) EXCEPT !.id = head]
                       IN  IF GateOpen(head, commitID)
                           THEN Step(t, "clone", "sort", [c EXCEPT !.gate = "open"])
                           ELSE Step(t, "clone", "idle", Ended([c EXCEPT !.gate = "skip"], "skipped"))
               \/ /\ stage' \in {stage, NoTree}
                  /\ Step(t, "clone", "idle",
                          Failed(Logged(cur[t], Call("fetch", "", "", FALSE)), "fetch-error"))
            /\ UNCHANGED <<cfg, stopch, closed, crashed, commitID, inStart, taskch, prev, lastCall>>

\* what sortClonedGitRepo computes from the tree at repoRoot:
\*   "panic"  the nil PackageFilter is dereferenced, or the base directory of
\*            a chart is taken from a slice that has no second element
\*   "error"  filepath.Walk fails on resourcePath
\*   "ok"     the chart directories, the resource directories, the index
sortClonedGitRepo(tree, c) ==
    IF ~c.hasFilter THEN [status |-> "panic"]
    ELSE IF c.subPath \notin tree.dirs THEN [status |-> "error"]
    ELSE LET cl == Classify(tree, c.subPath)
         IN  IF \E k \in cl.chartDirs : ChartBaseDir(k) = "PANIC"
             THEN [status |-> "panic"]
             ELSE [status |-> "ok",
                   chartDirs |-> cl.chartDirs,
                   resourceDirs |-> cl.resourceDirs,
                   index |-> filterCharts(c, BuildIndex(tree, cl.chartDirs))]

\* the call of sortClonedGitRepo in doSubscription; the walk and the load of
\* a chart manifest may also fail on an input/output error
SortClonedGitRepo(t) ==
    /\ ~crashed
    /\ pc[t] = "sort"
    /\ \E res \in {sortClonedGitRepo(stage, cfg)}, ok \in BOOLEAN :
          IF res.status = "panic"
          THEN ok /\ PanicIn(t)
          ELSE /\ IF res.status = "ok" /\ ok
                  THEN Step(t, "sort", "resources",
                            [Logged(Logged(cur[t], Call("classify", "", "", TRUE)),
                                    Call("filterCharts", "", "", TRUE)) EXCEPT
                                !.chartDirs = res.chartDirs,
                                !.rscDirs = res.resourceDirs,
                                !.dirsLeft = res.resourceDirs,
                                !.index = res.index,
                                !.left = DOMAIN res.index])
                  ELSE Step(t, "sort", "idle",
                            Ended(Logged(cur[t], Call("classify", "", "", FALSE)), "sort-error"))
               /\ UNCHANGED <<cfg, stage, stopch, closed, crashed, commitID, inStart, taskch, prev, lastCall>>

(***************************************************************************)
(* subscribeResources                                                      *)
(***************************************************************************)
KeyExists(tree, key) == \E d \in tree.dirs : PathOf(d) \o "/" = key

\* one iteration of the loop over rscDirs: ioutil.ReadDir
ListDir(t) ==
    /\ cur[t].files = <<>>
    /\ \E key \in cur[t].dirsLeft, ok \in BOOLEAN :
          /\ ok => KeyExists(stage, key)
          /\ Step(t, "resources", "resources",
                  [Logged(cur[t], Call("readDir", key, "", ok)) EXCEPT
                      !.dirsLeft = @ \ {key},
                      !.files = IF ok THEN FilesIn(stage, DirOfKey(stage, key)) ELSE <<>>])
    /\ UNCHANGED <<cfg, stage, stopch, closed, crashed, commitID, inStart, taskch, prev, lastCall>>

Outcomes == {"ok", "read-fail", "override-fail", "register-fail"}

AfterRegisterTemplateContinue(ok) == "resources"

\* where subscribeResources goes after RegisterTemplate: on with the loop, or
\* out of the function (which brings doSubscription to subscribeHelmCharts)
AfterRegisterTemplate(ok) == IF ok THEN "resources" ELSE "charts"

\* one iteration of the loop over files, subscribeResource included
SubscribeFile(t) ==
    /\ cur[t].files # <<>>
    /\ \E r \in Outcomes, st \in BOOLEAN :
          LET f == Head(cur[t].files)
              name == ResourceDplName(cfg, f)
              c == [cur[t] EXCEPT !.files = Tail(@)]
              status == Call("setPackageStatus", name, "", st)
              register(ok) == Call("registerTemplate", name, f.kind \o "/" \o f.name, ok)
          IN  IF ~f.regular \/ f.ext \notin {".yaml", ".yml"}
              THEN r = "ok" /\ st /\ Step(t, "resources", "resources", c)
              ELSE IF r = "read-fail"
              THEN st /\ Step(t, "resources", "resources", Logged(c, Call("readFile", f.fname, "", FALSE)))
              ELSE IF f.apiVersion = "" \/ f.kind = ""
              THEN r = "ok" /\ st /\ Step(t, "resources", "resources", c)
              ELSE IF f.kind \notin SupportedKinds
              THEN r = "ok" /\ Step(t, "resources", "resources",
                                    [Logged(c, status) EXCEPT !.rscPkgMap = @ \cup {name}])
              ELSE IF cfg.hasFilter /\ ~checkFilters(cfg, f)
              THEN r = "ok" /\ st /\ Step(t, "resources", "resources", c)
              ELSE IF r = "override-fail"
              THEN cfg.hasFilter /\ Step(t, "resources", "resources",
                        [Logged(Logged(c, Call("override", name, "", FALSE)), status) EXCEPT
                            !.rscPkgMap = @ \cup {name}])
              ELSE IF r = "register-fail"
              THEN LET failed == [Logged(Logged(c, register(FALSE)), status) EXCEPT
                                     !.rscPkgMap = @ \cup {name}]
                   IN  IF AfterRegisterTemplate(FALSE) = "charts"
                       THEN Step(t, "resources", "charts",
                                 [failed EXCEPT !.files = <<>>, !.dirsLeft = {}])
                       ELSE Step(t, "resources", "resources", failed)
              ELSE st /\ Step(t, "resources", "resources",
                              [Logged(c, register(TRUE)) EXCEPT
                                  !.valid = @ \cup {name}, !.rscPkgMap = @ \cup {name}])
    /\ UNCHANGED <<cfg, stage, stopch, closed, crashed, commitID, inStart, taskch, prev, lastCall>>

\* the end of subscribeResources
ApplyValidator(t) ==
    /\ cur[t].files = <<>>
    /\ cur[t].dirsLeft = {}
    /\ Step(t, "resources", "charts",
            Logged(cur[t], CallSet("applyValidator", "", "", cur[t].valid, TRUE)))
    /\ UNCHANGED <<cfg, stage, stopch, closed, crashed, commitID, inStart, taskch, prev, lastCall>>

(***************************************************************************)
(* subscribeHelmCharts                                                     *)
(***************************************************************************)
ErrOfRegister(err, ok) == IF ok THEN err ELSE "error"

\* the named result err after RegisterTemplate and SetInClusterPackageStatus
\* in the loop: both assign the err declared by "err := ghsi.override(...)"
ErrAfterRegister(err, ok) == err

\* one iteration of the loop over indexFile.Entries
SubscribeHelmChart(t) ==
    /\ \E p \in cur[t].left, get \in {"nil", "notfound", "error"}, r \in Outcomes, st \in BOOLEAN :
          LET cv == cur[t].index[p][1]
              name == ChartDplName(cfg, p, cv)
              got == [Logged(cur[t], Call("getRelease", p, get, get # "error")) EXCEPT
                         !.left = @ \ {p}, !.err = get]
              c == [got EXCEPT !.err = ErrAfterRegister(@, r # "register-fail")]
              status == Call("setPackageStatus", name, "", st)
              register(ok) == Call("registerTemplate", name, "HelmRelease/" \o p \o "/" \o cv.version, ok)
          IN  IF get = "error"
              THEN r = "ok" /\ st /\ Step(t, "charts", "charts", [c EXCEPT !.left = {}])
              ELSE IF r = "override-fail"
              THEN st /\ Step(t, "charts", "idle",
                              Ended(Logged(c, Call("override", name, "", FALSE)), "chart-error"))
              ELSE IF r = "register-fail"
              THEN Step(t, "charts", "charts",
                        [Logged(Logged(c, register(FALSE)), status) EXCEPT !.chartPkgMap = @ \cup {name}])
              ELSE r = "ok" /\ st /\ Step(t, "charts", "charts",
                                          [Logged(c, register(TRUE)) EXCEPT !.chartPkgMap = @ \cup {name}])
    /\ UNCHANGED <<cfg, stage, stopch, closed, crashed, commitID, inStart, taskch, prev, lastCall>>

\* what subscribeHelmCharts returns once the loop is over
ChartPassResult(err, v1, v2) ==
    IF v1 THEN err ELSE IF v2 THEN "nil" ELSE "error"

\* the end of subscribeHelmCharts, and the test of its result in doSubscription
ValidatePackages(t) ==
    /\ cur[t].left = {}
    /\ \E v1 \in BOOLEAN, g \in BOOLEAN, v2 \in BOOLEAN :
          LET validate(ok) == CallSet("validatePackagesInStatus", "", "", cur[t].chartPkgMap, ok)
              c == IF v1 THEN Logged(cur[t], validate(TRUE))
                   ELSE Logged(Logged(Logged(cur[t], validate(FALSE)),
                                      Call("getSubscription", "", "", g)), validate(v2))
          IN  /\ v1 => (g /\ v2)
              /\ IF ChartPassResult(cur[t].err, v1, v2) = "nil"
                 THEN Step(t, "charts", "commit", c)
                 ELSE Step(t, "charts", "idle", Ended(c, "chart-error"))
    /\ UNCHANGED <<cfg, stage, stopch, closed, crashed, commitID, inStart, taskch, prev, lastCall>>

\* ghsi.commitID = commitID
Commit(t) ==
    /\ Step(t, "commit", "idle", Ended(cur[t], "committed"))
    /\ commitID' = cur[t].id
    /\ UNCHANGED <<cfg, stage, stopch, closed, crashed, inStart, taskch, prev, lastCall>>

(***************************************************************************)
(* Specifications                                                          *)
(***************************************************************************)
\* an item that has not been started
NewItem ==
    /\ stage = NoTree
    /\ stopch = 0
    /\ closed = {}
    /\ crashed = FALSE
    /\ commitID = 0
    /\ inStart = [c \in Callers |-> FALSE]
    /\ taskch = [t \in Tasks |-> 0]
    /\ pc = [t \in Tasks |-> "none"]
    /\ cur = [t \in Tasks |-> Ended(NewCycle(0), "none")]
    /\ prev = [t \in Tasks |-> Summary(Ended(NewCycle(0), "none"))]
    /\ lastCall = "none"

Init ==
    /\ cfg \in Configs
    /\ NewItem
    /\ faults = 0

Cycle(t) ==
    \/ TimerFire(t)
    \/ CloneGitRepo(t)
    \/ SortClonedGitRepo(t)
    \/ ListDir(t)
    \/ SubscribeFile(t)
    \/ ApplyValidator(t)
    \/ SubscribeHelmChart(t)
    \/ ValidatePackages(t)
    \/ Commit(t)

Next ==
    \/ Start
    \/ Stop
    \/ \E t \in Tasks : Cycle(t)

Spec == Init /\ [][Next]_vars

\* Start called from several goroutines at once, on an item that subscribes
\* to one package, in runs where no collaborator call fails
InitRace ==
    /\ cfg = [BaseConfig EXCEPT !.package = "web"]
    /\ NewItem
    /\ faults = MaxFailures

NextRace ==
    \/ \E c \in Callers : StartCheck(c)
    \/ \E c \in Callers : StartLaunch(c)
    \/ \E t \in Tasks : Cycle(t)

SpecRace == InitRace /\ [][NextRace]_vars

(***************************************************************************)
(* sortClonedGitRepo on every tree of at most MaxDirs directories below    *)
(* repoRoot, two levels deep, with a chart manifest in any of them         *)
(***************************************************************************)
TreeNames == {".git", ".github", "a"}

TreeDirs == {<<n>> : n \in TreeNames} \cup {<<n, m>> : n \in TreeNames, m \in TreeNames}

TreeShapes ==
    {S \in SUBSET TreeDirs :
        /\ Cardinality(S) <= MaxDirs
        /\ \A d \in S : Len(d) = 2 => <<d[1]>> \in S}

TreeChart(d) ==
    IF d = <<>> THEN Chart(ChannelName, "1.0.0")
    ELSE IF Len(d) = 1 THEN Chart(d[1], "1.0.0")
    ELSE Chart(d[2], "2.0.0")

AllTrees ==
    {[dirs |-> S \cup {<<>>},
      charts |-> [d \in C |-> TreeChart(d)],
      files |-> [d \in {} |-> <<>>]] : <<S, C>> \in {<<S, C>> \in TreeShapes \X SUBSET (TreeDirs \cup {<<>>}) : C \subseteq S \cup {<<>>}}}

InitClassify ==
    /\ cfg \in {BaseConfig, [BaseConfig EXCEPT !.subPath = <<"a">>]}
    /\ stage \in AllTrees
    /\ stopch = 1
    /\ closed = {}
    /\ crashed = FALSE
    /\ commitID = 0
    /\ inStart = [c \in Callers |-> FALSE]
    /\ taskch = [t \in Tasks |-> IF t = 1 THEN 1 ELSE 0]
    /\ pc = [t \in Tasks |-> IF t = 1 THEN "sort" ELSE "none"]
    /\ cur = [t \in Tasks |->
                IF t = 1
                THEN [Logged(NewCycle(0), Call("fetch", "", "", TRUE)) EXCEPT !.id = 1, !.gate = "open"]
                ELSE Ended(NewCycle(0), "none")]
    /\ prev = [t \in Tasks |-> Summary(Ended(NewCycle(0), "none"))]
    /\ faults = 0
    /\ lastCall = "Start"

NextClassify == SortClonedGitRepo(1)

SpecClassify == InitClassify /\ [][NextClassify]_vars

(***************************************************************************)
(* sortClonedGitRepo and filterCharts on every repository of at most       *)
(* MaxCharts chart directories, for every chart filter of a subscription   *)
(***************************************************************************)
ChartDirs == {<<"a">>, <<"demo">>, <<"web">>}

ChartRecords ==
    {[name |-> n, version |-> v, tiller |-> tl] :
        n \in {"demo", "web"}, v \in {"1.0.0", "2.0.0", "bad"}, tl \in {"", ">=2.0.0", "bad"}}

ChartTrees ==
    {[dirs |-> DOMAIN f \cup {<<>>}, charts |-> f, files |-> [d \in {} |-> <<>>]] :
        f \in UNION {[D -> ChartRecords] : D \in {D \in SUBSET ChartDirs : Cardinality(D) <= MaxCharts}}}

TillerFilter(v) == [k \in {"tillerVersion"} |-> v]

ChartFilters ==
    {[BaseConfig EXCEPT !.package = p, !.version = v, !.annotations = an] :
        p \in {"", "demo"},
        v \in {"", ">=1.5.0", "bad"},
        an \in {NoMap, TillerFilter("2.9.0"), TillerFilter("1.0.0"), TillerFilter("bad")}}

\* a cycle of task 1 that has fetched commit 1 and is about to call
\* sortClonedGitRepo
AtSort ==
    /\ stopch = 1
    /\ closed = {}
    /\ crashed = FALSE
    /\ commitID = 0
    /\ inStart = [c \in Callers |-> FALSE]
    /\ taskch = [t \in Tasks |-> IF t = 1 THEN 1 ELSE 0]
    /\ pc = [t \in Tasks |-> IF t = 1 THEN "sort" ELSE "none"]
    /\ cur = [t \in Tasks |->
                IF t = 1
                THEN [Logged(NewCycle(0), Call("fetch", "", "", TRUE)) EXCEPT !.id = 1, !.gate = "open"]
                ELSE Ended(NewCycle(0), "none")]
    /\ prev = [t \in Tasks |-> Summary(Ended(NewCycle(0), "none"))]
    /\ lastCall = "Start"

InitCharts ==
    /\ cfg \in ChartFilters
    /\ stage \in ChartTrees
    /\ AtSort
    /\ faults = MaxFailures

NextCharts == SortClonedGitRepo(1)

SpecCharts == InitCharts /\ [][NextCharts]_vars

(***************************************************************************)
(* subscribeResources on every directory of at most MaxFiles manifests,    *)
(* for every resource filter of a subscription                             *)
(***************************************************************************)
FileNames == <<"r1.yaml", "r2.yaml", "r3.yaml">>

OneLabel(k, v) == [x \in {k} |-> v]

ResourceManifests ==
    {[Manifest("", "ConfigMap", n) EXCEPT !.labels = l, !.annotations = an] :
        n \in {"cfg", "demo"},
        l \in {NoMap, OneLabel("app", "web"), OneLabel("app", "db")},
        an \in {NoMap, OneLabel("tier", "gold"), OneLabel("tier", "silver")}}

ResourceTrees ==
    {[dirs |-> {<<>>},
      charts |-> [d \in {} |-> Chart("", "")],
      files |-> [d \in {<<>>} |-> [i \in DOMAIN fs |-> [fs[i] EXCEPT !.fname = FileNames[i]]]]] :
        fs \in UNION {[1..n -> ResourceManifests] : n \in 1..MaxFiles}}

ResourceFilters ==
    {[BaseConfig EXCEPT !.package = p, !.labels = l, !.annotations = an] :
        p \in {"", "demo"},
        l \in {NoMap, OneLabel("app", "web")},
        an \in {NoMap, OneLabel("tier", "gold"), OneLabel("tier", "")}}

InitResources ==
    /\ cfg \in ResourceFilters
    /\ stage \in ResourceTrees
    /\ AtSort
    /\ faults = MaxFailures

NextResources ==
    \/ SortClonedGitRepo(1)
    \/ ListDir(1)
    \/ SubscribeFile(1)
    \/ ApplyValidator(1)

SpecResources == InitResources /\ [][NextResources]_vars

(***************************************************************************)
(* The chart pass over every index of charts that declare no tiller        *)
(* version, several charts of one name included                            *)
(***************************************************************************)
VersionTrees == {tr \in ChartTrees : \A d \in DOMAIN tr.charts : tr.charts[d].tiller = ""}

VersionFilters ==
    { BaseConfig,
      [BaseConfig EXCEPT !.package = "demo"],
      [BaseConfig EXCEPT !.package = "demo", !.version = ">=1.5.0"] }

InitBest ==
    /\ cfg \in VersionFilters
    /\ stage \in VersionTrees
    /\ AtSort
    /\ faults = MaxFailures

NextBest ==
    \/ SortClonedGitRepo(1)
    \/ ListDir(1)
    \/ ApplyValidator(1)
    \/ SubscribeHelmChart(1)
    \/ ValidatePackages(1)
    \/ Commit(1)

SpecBest == InitBest /\ [][NextBest]_vars

(***************************************************************************)
(* Two items bound to the same channel: cloneGitRepo of both works on the  *)
(* one path TempDir/Channel.Namespace/Channel.Name.  A task stands for the *)
(* goroutine of one item; the cycles are followed to the end of the        *)
(* resource pass, before either item has stored a commitID                 *)
(***************************************************************************)
\* repoRoot exists and holds nothing
EmptyDir == [dirs |-> {<<>>}, charts |-> [d \in {} |-> Chart("", "")], files |-> [d \in {} |-> <<>>]]

StagingKept(tree) == tree

\* what is at repoRoot after the os.Stat test of cloneGitRepo: a directory
\* that is missing is made, one that exists is removed with all it holds
StagingAfterStat(tree) == IF tree = NoTree THEN EmptyDir ELSE NoTree

\* cloneGitRepo up to git.PlainClone: os.Stat, then os.MkdirAll or
\* os.RemoveAll, either of which may fail
RemoveStaging(t) ==
    /\ ~crashed
    /\ pc[t] = "clone"
    /\ IF ~cfg.channel
       THEN PanicIn(t)
       ELSE /\ \/ /\ stage' = StagingAfterStat(stage)
                  /\ Step(t, "clone", "cloning", cur[t])
               \/ /\ stage' = stage
                  /\ Step(t, "clone", "idle",
                          Failed(Logged(cur[t], Call("fetch", "", "", FALSE)), "fetch-error"))
            /\ UNCHANGED <<cfg, stopch, closed, crashed, commitID, inStart, taskch, prev, lastCall>>

\* git.PlainClone into repoRoot, the rest of cloneGitRepo and the comparison
\* with ghsi.commitID
PlainClone(t) ==
    /\ ~crashed
    /\ pc[t] = "cloning"
    /\ \/ \E head \in CommitIDs :
             /\ stage' = Repo(head)
             /\ LET c == [Logged(cur[t], Call("fetch", "", "", TRUE)) EXCEPT !.id = head]
                IN  IF GateOpen(head, commitID)
                    THEN Step(t, "cloning", "sort", [c EXCEPT !.gate = "open"])
                    ELSE Step(t, "cloning", "idle", Ended([c EXCEPT !.gate = "skip"], "skipped"))
       \/ /\ stage' \in {stage, NoTree}
          /\ Step(t, "cloning", "idle",
                  Failed(Logged(cur[t], Call("fetch", "", "", FALSE)), "fetch-error"))
    /\ UNCHANGED <<cfg, stopch, closed, crashed, commitID, inStart, taskch, prev, lastCall>>

\* tasks 1 and 2 are the running goroutines of two items, in runs where at
\* most one collaborator call fails
InitShared ==
    /\ cfg = BaseConfig
    /\ stage = NoTree
    /\ stopch = 2
    /\ closed = {}
    /\ crashed = FALSE
    /\ commitID = 0
    /\ inStart = [c \in Callers |-> FALSE]
    /\ taskch = [t \in Tasks |-> IF t \in {1, 2} THEN t ELSE 0]
    /\ pc = [t \in Tasks |-> IF t \in {1, 2} THEN "idle" ELSE "none"]
    /\ cur = [t \in Tasks |-> Ended(NewCycle(0), "none")]
    /\ prev = [t \in Tasks |-> Summary(Ended(NewCycle(0), "none"))]
    /\ lastCall = "Start"
    /\ faults = MaxFailures - 1

NextShared ==
    \E t \in Tasks :
        \/ TimerFire(t)
        \/ RemoveStaging(t)
        \/ PlainClone(t)
        \/ SortClonedGitRepo(t)
        \/ ListDir(t)
        \/ SubscribeFile(t)
        \/ ApplyValidator(t)

SpecShared == InitShared /\ [][NextShared]_vars

(***************************************************************************)
(* An item that has been started and is never stopped, in runs where no    *)
(* collaborator call fails (a release lookup may report "not found"): the  *)
(* goroutine started by wait.Until keeps taking the steps of its cycles    *)
(***************************************************************************)
InitLive ==
    /\ cfg = BaseConfig
    /\ stage = NoTree
    /\ stopch = 1
    /\ closed = {}
    /\ crashed = FALSE
    /\ commitID = 0
    /\ inStart = [c \in Callers |-> FALSE]
    /\ taskch = [t \in Tasks |-> IF t = 1 THEN 1 ELSE 0]
    /\ pc = [t \in Tasks |-> IF t = 1 THEN "idle" ELSE "none"]
    /\ cur = [t \in Tasks |-> Ended(NewCycle(0), "none")]
    /\ prev = [t \in Tasks |-> Summary(Ended(NewCycle(0), "none"))]
    /\ lastCall = "Start"
    /\ faults = MaxFailures

NextLive == Cycle(1)

SpecLive == InitLive /\ [][NextLive]_vars /\ WF_vars(Cycle(1))

(***************************************************************************)
(* Properties of the sync gate                                             *)
(***************************************************************************)
Launched == {t \in Tasks : taskch[t] # 0}

InCycle(t) == pc[t] \notin {"none", "idle"}

\* the cycle fetched the identifier that was stored when it began
FetchedStored(c) == c.id # 0 /\ c.id = c.start

GatedOps == {"classify", "filterCharts", "registerTemplate", "applyValidator",
             "validatePackagesInStatus"}

\* C1: a cycle whose fetch returns the stored identifier ends right after the
\* fetch: it makes no classify, filterCharts, registerTemplate, applyValidator
\* or validatePackagesInStatus call, and ghsi.commitID keeps the value it had
\* when the cycle began.
C1_SyncGateSkips ==
    \A t \in Launched :
        FetchedStored(cur[t]) =>
            /\ pc[t] = "idle"
            /\ \A i \in 1..Len(cur[t].calls) : cur[t].calls[i].op \notin GatedOps
            /\ commitID = cur[t].start

C1_Witness ==
    \E t \in Launched : FetchedStored(cur[t]) /\ cur[t].outcome = "skipped"

\* the resource pass reached ApplyValiadtor (no RegisterTemplate failure made
\* subscribeResources return early)
ResourcePassCompleted(c) == CallsOf(c, "applyValidator") # {}

\* the loop of the chart pass met no lookup error and no override failure
ChartPassCompleted(c) ==
    \A i \in 1..Len(c.calls) : c.calls[i].op \in {"getRelease", "override"} => c.calls[i].ok

\* C2: ghsi.commitID changes only as the last step of a cycle whose fetch and
\* classification succeeded and whose resource pass and chart pass both
\* completed without a fatal error, and it then takes the fetched identifier.
C2_CommitOnlyAfterFullCycle ==
    [][commitID' # commitID =>
          \E t \in Launched :
              /\ pc[t] = "commit" /\ pc'[t] = "idle"
              /\ commitID' = cur[t].id
              /\ cur[t].id # 0
              /\ CallsOf(cur[t], "classify") # {}
              /\ ResourcePassCompleted(cur[t])
              /\ ChartPassCompleted(cur[t])]_vars

\* the causes of a partial failure: fetch error, classification error, a
\* RegisterTemplate failure that cut the resource pass short, an error
\* returned by the chart pass
FailedPartway(c) ==
    \/ c.outcome \in {"fetch-error", "sort-error", "chart-error"}
    \/ c.outcome = "committed" /\ ~ResourcePassCompleted(c)

\* C3: a cycle that failed partway leaves ghsi.commitID as it was when the
\* cycle began, and the next cycle that fetches the same identifier goes
\* through the gate again.
C3_PartialFailureKeepsCommitID ==
    \A t \in Launched :
        /\ (pc[t] = "idle" /\ FailedPartway(cur[t])) => commitID = cur[t].start
        /\ (prev[t].failed /\ prev[t].id # 0 /\ cur[t].id = prev[t].id) => cur[t].gate = "open"

\* C4: after a cycle that processed identifier X with every call succeeding,
\* the next cycle that fetches X again makes no registerTemplate call.
C4_NoRegistrationOnSameID ==
    \A t \in Launched :
        (prev[t].clean /\ prev[t].id # 0 /\ cur[t].id = prev[t].id)
            => CallsOf(cur[t], "registerTemplate") = {}

(***************************************************************************)
(* Properties of Start and Stop                                            *)
(***************************************************************************)
\* C5: at most one cycle of the item is in progress, whatever the
\* interleaving of timer firings and Start calls, concurrent ones included.
C5_CyclesNeverOverlap == Cardinality({t \in Tasks : InCycle(t)}) <= 1

ItemAndTasks == <<cfg, stage, stopch, closed, crashed, commitID, inStart, taskch, pc, cur, prev, faults>>

\* C6: Stop on an item that was started and already stopped does not crash
\* the process and changes nothing.
C6_StopIdempotent ==
    [][(stopch # 0 /\ stopch \in closed /\ Stop) => (~crashed' /\ UNCHANGED ItemAndTasks)]_vars

\* C7: Start on an item that has been started changes nothing and launches
\* no task, and once the item is stopped no task is launched and no cycle
\* begins.
C7_StartAgainIsNoOp ==
    [][/\ (stopch # 0 /\ Start) => UNCHANGED ItemAndTasks
       /\ stopch \in closed =>
             /\ taskch' = taskch
             /\ \A t \in Tasks : ~InCycle(t) => pc'[t] = pc[t]]_vars

C7_Witness == lastCall = "Start" /\ stopch \in closed /\ ~crashed

\* the passes and the commit of doSubscription
Passes(t) ==
    \/ ListDir(t) \/ SubscribeFile(t) \/ ApplyValidator(t)
    \/ SubscribeHelmChart(t) \/ ValidatePackages(t)
    \/ Commit(t)

\* a cycle in flight on a stopped item can take the next step of its passes
CanProceed ==
    \A t \in Tasks :
        (taskch[t] \in closed /\ pc[t] \in {"resources", "charts", "commit"} /\ ~crashed)
            => ENABLED Passes(t)

\* C8: a task whose stop channel is closed begins no new cycle; Stop leaves
\* the position and the locals of a cycle in flight as they are, and that
\* cycle can still take each of its remaining steps, the commit included.
C8_StopOnlyPreventsFirings ==
    /\ []CanProceed
    /\ [][/\ \A t \in Tasks : (taskch[t] \in closed /\ ~InCycle(t)) => pc'[t] = pc[t]
          /\ Stop => (pc' = pc /\ cur' = cur /\ commitID' = commitID)]_vars

C8_Witness ==
    \E t \in Launched : taskch[t] \in closed /\ pc[t] = "commit" /\ ~crashed

(***************************************************************************)
(* Properties of the classifier                                            *)
(***************************************************************************)
KeyOf(d) == PathOf(d) \o "/"

\* holds a chart manifest and lies below no other directory that holds one
RefChartRoots(tree) ==
    {d \in tree.dirs :
        /\ d \in DOMAIN tree.charts
        /\ \A e \in DOMAIN tree.charts : e # d => ~IsPrefixDir(e, d)}

InsideChartRoot(tree, d) == \E e \in RefChartRoots(tree) : e # d /\ IsPrefixDir(e, d)

\* the version-control metadata directory and what lies below it
InsideMetadata(d) == IsPrefixDir(<<GitDir>>, d)

RefResourceDirs(tree) ==
    {d \in tree.dirs :
        /\ d \notin RefChartRoots(tree)
        /\ ~InsideChartRoot(tree, d)
        /\ ~InsideMetadata(d)}

\* C9: for every tree walked from repoRoot, the chart directories are the
\* directories that hold a chart manifest and lie in no other chart root, the
\* resource directories are those that are no chart root, lie in no chart
\* root and not in the metadata directory; the two are disjoint and hold no
\* directory of the metadata directory.
C9_ClassifierMatchesReference ==
    (pc[1] = "resources" /\ cfg.subPath = <<>>) =>
        /\ cur[1].chartDirs = {KeyOf(d) : d \in RefChartRoots(stage)}
        /\ cur[1].rscDirs = {KeyOf(d) : d \in RefResourceDirs(stage)}
        /\ cur[1].chartDirs \cap cur[1].rscDirs = {}
        /\ \A d \in stage.dirs :
              InsideMetadata(d) => KeyOf(d) \notin cur[1].chartDirs \cup cur[1].rscDirs

(***************************************************************************)
(* The end-to-end scenario                                                 *)
(***************************************************************************)
NoFilters(c) ==
    c.package = "" /\ c.version = "" /\ DOMAIN c.labels = {} /\ DOMAIN c.annotations = {}

Registrations(c) == {<<c.calls[i].name, c.calls[i].arg>> : i \in CallsOf(c, "registerTemplate")}

\* C10: with no filter declared, a cycle over the repository of one ConfigMap
\* cfg and one chart demo 1.0.0 in which every call succeeds makes exactly two
\* registerTemplate calls, for <subscription>-ConfigMap-cfg and for
\* <subscription>-demo-1.0.0 carrying a release of version 1.0.0.
C10_EndToEndScenario ==
    \A t \in Launched :
        (NoFilters(cfg) /\ cur[t].id = 1 /\ cur[t].gate = "open" /\ cur[t].clean
           /\ cur[t].outcome # "running")
        => /\ Cardinality(CallsOf(cur[t], "registerTemplate")) = 2
           /\ Registrations(cur[t]) =
                 {<<SubscriptionName \o "-ConfigMap-cfg", "ConfigMap/cfg">>,
                  <<SubscriptionName \o "-demo-1.0.0", "HelmRelease/demo/1.0.0">>}

(***************************************************************************)
(* Properties of the chart filters                                         *)
(***************************************************************************)
\* the index sortClonedGitRepo hands to filterCharts
InputIndex == BuildIndex(stage, cur[1].chartDirs)

RecordsOf(index, p) ==
    IF p \in DOMAIN index THEN {index[p][i] : i \in 1..Len(index[p])} ELSE {}

\* C11: after filterCharts the index holds no entry but the one keyed by the
\* declared package name; with no package name declared it is the index that
\* was built, every entry and every version record of it.
C11_NameFilter ==
    pc[1] = "resources" =>
        IF cfg.package # ""
        THEN DOMAIN cur[1].index \subseteq {cfg.package}
        ELSE cur[1].index = InputIndex

C11_Witness ==
    /\ pc[1] = "resources"
    /\ cfg.package = "demo"
    /\ DOMAIN InputIndex = {"demo", "web"}
    /\ DOMAIN cur[1].index = {"demo"}

VersionDeclared(c) == c.version # ""

TillerDeclared(c) == "tillerVersion" \in DOMAIN c.annotations

SatisfiesVersion(c, r) ==
    /\ ParseSemver(r.version) # <<>>
    /\ ParseRange(c.version).ok
    /\ InRange(ParseRange(c.version), ParseSemver(r.version))

SatisfiesTiller(c, r) ==
    /\ r.tiller # ""
    /\ ParseRange(r.tiller).ok
    /\ ParseSemver(c.annotations["tillerVersion"]) # <<>>
    /\ InRange(ParseRange(r.tiller), ParseSemver(c.annotations["tillerVersion"]))

\* the predicate a version record has to satisfy to be kept
ShouldKeep(c, r) ==
    /\ VersionDeclared(c) => SatisfiesVersion(c, r)
    /\ TillerDeclared(c) => SatisfiesTiller(c, r)

\* C12: when a package name is declared (filterOnVersion runs), a version
\* record of the package is kept iff it satisfies the declared version range
\* and the declared tiller constraint, a record that declares no tiller
\* version failing a declared tiller constraint; the package is left in the
\* index iff one of its records is kept.
C12_VersionTillerPredicate ==
    (pc[1] = "resources" /\ cfg.package # "") =>
        /\ RecordsOf(cur[1].index, cfg.package)
              = {r \in RecordsOf(InputIndex, cfg.package) : ShouldKeep(cfg, r)}
        /\ cfg.package \in DOMAIN cur[1].index
              <=> \E r \in RecordsOf(InputIndex, cfg.package) : ShouldKeep(cfg, r)

\* a record that declares a tiller version satisfies the declared constraint
SatisfiesDeclared(c, r) ==
    /\ VersionDeclared(c) => SatisfiesVersion(c, r)
    /\ (TillerDeclared(c) /\ r.tiller # "") => SatisfiesTiller(c, r)

\* C14: whatever the subscription declares (a version range or a tiller
\* constraint without a package name included), every version record of the
\* index handed to the chart pass satisfies the declared version range and,
\* if it declares a tiller version, the declared tiller constraint, and no
\* package is left with zero records.
C14_FilteredIndexInvariant ==
    pc[1] = "resources" =>
        \A p \in DOMAIN cur[1].index :
            /\ cur[1].index[p] # <<>>
            /\ \A r \in RecordsOf(cur[1].index, p) : SatisfiesDeclared(cfg, r)

(***************************************************************************)
(* Properties of the resource filter                                       *)
(***************************************************************************)
\* the conjunction a resource has to satisfy to be accepted
Accepted(c, rsc) ==
    /\ c.package = "" \/ rsc.name = c.package
    /\ LabelChecker(c.labels, rsc.labels)
    /\ \A k \in DOMAIN c.annotations :
          k \in DOMAIN rsc.annotations /\ rsc.annotations[k] = c.annotations[k]

ManifestsAt(tree, d) == {FilesIn(tree, d)[i] : i \in 1..Len(FilesIn(tree, d))}

RegisteredArgs(c) == {c.calls[i].arg : i \in CallsOf(c, "registerTemplate")}

\* C13: with a package filter configured, the resources registered by the
\* resource pass are exactly those whose name equals the declared package
\* name (if any), whose labels satisfy the label selector and which carry
\* every key of the annotation filter with the value the filter gives it.
C13_ResourceFilterConjunction ==
    (pc[1] = "charts" /\ cfg.hasFilter) =>
        RegisteredArgs(cur[1])
            = {f.kind \o "/" \o f.name : f \in {g \in ManifestsAt(stage, <<>>) : Accepted(cfg, g)}}

(***************************************************************************)
(* Properties of the two passes                                            *)
(***************************************************************************)
\* call i of the cycle was made by subscribeHelmCharts
IsChartCall(c, i) ==
    \E j \in 1..i : c.calls[j].op \in {"getRelease", "validatePackagesInStatus"}

ResourceRegs(c) == {i \in CallsOf(c, "registerTemplate") : ~IsChartCall(c, i)}

ChartRegs(c) == {i \in CallsOf(c, "registerTemplate") : IsChartCall(c, i)}

FailedCalls(c) == {i \in 1..Len(c.calls) : ~c.calls[i].ok}

StatusFollows(c, i) ==
    /\ i < Len(c.calls)
    /\ c.calls[i + 1].op = "setPackageStatus"
    /\ c.calls[i + 1].name = c.calls[i].name

\* C15: when RegisterTemplate fails in the resource pass, the status of the
\* package is set next, the pass makes no further RegisterTemplate and
\* AddValidResource call, and the cycle goes on with the chart pass.
C15_ResourcePassAbort ==
    \A t \in Launched :
        \A i \in ResourceRegs(cur[t]) :
            ~cur[t].calls[i].ok =>
                /\ StatusFollows(cur[t], i)
                /\ \A j \in ResourceRegs(cur[t]) : j <= i
                /\ cur[t].valid = {cur[t].calls[j].name : j \in {k \in ResourceRegs(cur[t]) : k < i}}
                /\ pc[t] \in {"charts", "commit", "idle"}
                /\ pc[t] \in {"commit", "idle"} => \E j \in (i + 1)..Len(cur[t].calls) : IsChartCall(cur[t], j)

C15_Witness ==
    \E t \in Launched :
        /\ \E i \in ResourceRegs(cur[t]) : ~cur[t].calls[i].ok
        /\ CallsOf(cur[t], "getRelease") # {}
        /\ pc[t] = "idle"

ChartOverrideFailed(c) ==
    {i \in CallsOf(c, "override") : IsChartCall(c, i) /\ ~c.calls[i].ok}

Looked(c) == {c.calls[i].name : i \in CallsOf(c, "getRelease")}

\* C16: when the override of one package fails in the chart pass, that
\* package is not registered, every other package of the index is still
\* looked up and the status is still validated at the end of the pass.
C16_ChartOverridePerPackage ==
    \A t \in Launched :
        (pc[t] = "idle" /\ ChartOverrideFailed(cur[t]) # {}) =>
            /\ \A i \in ChartOverrideFailed(cur[t]) :
                  \A j \in ChartRegs(cur[t]) : cur[t].calls[j].name # cur[t].calls[i].name
            /\ Looked(cur[t]) = DOMAIN cur[t].index
            /\ CallsOf(cur[t], "validatePackagesInStatus") # {}

\* no lookup error and no override failure cut the chart pass short
ChartLoopRanOn(c) ==
    \A i \in FailedCalls(c) : c.calls[i].op \notin {"getRelease", "override"}

\* C17: when RegisterTemplate fails for a package in the chart pass, the
\* status of the package is set next, the packages left in the index are
\* still looked up, and a cycle in which nothing else went wrong (every other
\* call succeeded and every release was found) ends with the commit.
C17_ChartRegisterPerPackage ==
    \A t \in Launched :
        \A i \in ChartRegs(cur[t]) :
            ~cur[t].calls[i].ok =>
                /\ StatusFollows(cur[t], i)
                /\ pc[t] # "charts" => (ChartLoopRanOn(cur[t]) => Looked(cur[t]) = DOMAIN cur[t].index)
                /\ (/\ pc[t] = "idle"
                    /\ FailedCalls(cur[t]) \subseteq ChartRegs(cur[t])
                    /\ \A j \in CallsOf(cur[t], "getRelease") : cur[t].calls[j].arg = "nil")
                   => cur[t].outcome = "committed"

C17_Witness ==
    \E t \in Launched :
        /\ \E i \in ChartRegs(cur[t]) : ~cur[t].calls[i].ok
        /\ FailedCalls(cur[t]) \subseteq ChartRegs(cur[t])
        /\ Cardinality(Looked(cur[t])) = 2
        /\ cur[t].outcome = "committed"

\* the resource pass of the cycle has run and is over
ResourcePassOver(t) ==
    /\ cur[t].gate = "open"
    /\ \E i \in CallsOf(cur[t], "classify") : cur[t].calls[i].ok
    /\ pc[t] \in {"charts", "commit", "idle"}

\* C18: a resource pass calls ApplyValiadtor exactly once, after every
\* RegisterTemplate call it makes.
C18_ValidatorOncePerPass ==
    \A t \in Launched :
        ResourcePassOver(t) =>
            /\ Cardinality(CallsOf(cur[t], "applyValidator")) = 1
            /\ \A i \in ResourceRegs(cur[t]) : \A j \in CallsOf(cur[t], "applyValidator") : i < j

\* the versions that are the greatest among the records (any of them when
\* no version parses)
GreatestVersions(recs) ==
    LET parsed == {r \in recs : ParseSemver(r.version) # <<>>}
    IN  IF parsed = {} THEN {r.version : r \in recs}
        ELSE {r.version : r \in {x \in parsed :
                 \A y \in parsed : ~SemverLess(ParseSemver(x.version), ParseSemver(y.version))}}

RegsOfPackage(c, p) ==
    {i \in ChartRegs(c) : HasPrefix(c.calls[i].arg, "HelmRelease/" \o p \o "/")}

\* C19: for every package of the filtered index the chart pass makes at most
\* one RegisterTemplate call, and the release and the deployable name carry
\* the greatest version among the records of the package.
C19_BestVersion ==
    \A p \in DOMAIN cur[1].index :
        /\ Cardinality(RegsOfPackage(cur[1], p)) <= 1
        /\ \A i \in RegsOfPackage(cur[1], p) :
              \E v \in GreatestVersions(RecordsOf(cur[1].index, p)) :
                  /\ cur[1].calls[i].arg = "HelmRelease/" \o p \o "/" \o v
                  /\ cur[1].calls[i].name = ChannelName \o "-" \o p \o "-" \o v

C19_Witness ==
    \E p \in DOMAIN cur[1].index :
        /\ RegsOfPackage(cur[1], p) # {}
        /\ Cardinality({ParseSemver(r.version) : r \in RecordsOf(cur[1].index, p)} \ {<<>>}) = 2
        /\ pc[1] = "idle"

StatusOps == {"setPackageStatus", "validatePackagesInStatus"}

\* C20: a cycle in which status calls fail (SetInClusterPackageStatus, or
\* ValidatePackagesInSubscriptionStatus on the first attempt and on the
\* retry) while every other call succeeds and every release is found ends
\* with the commit of the fetched identifier.
C20_StatusFailuresDoNotBlock ==
    \A t \in Launched :
        (/\ pc[t] = "idle"
         /\ cur[t].gate = "open"
         /\ cur[t].outcome \notin {"running", "panic"}
         /\ \A i \in FailedCalls(cur[t]) : cur[t].calls[i].op \in StatusOps
         /\ \A j \in CallsOf(cur[t], "getRelease") : cur[t].calls[j].arg = "nil")
        => (cur[t].outcome = "committed" /\ commitID = cur[t].id)

(***************************************************************************)
(* Properties of the shared staging path                                   *)
(***************************************************************************)
Emptied == {NoTree, EmptyDir}

\* what sortClonedGitRepo gives on the tree the cycle's own fetch cloned
OwnClassification(c) == sortClonedGitRepo(Repo(c.id), cfg)

\* the item of task t has fetched and not classified yet
WaitsToClassify(t) == pc[t] = "sort" /\ cur[t].gate = "open"

\* C21: the fetch of one item empties the staging path whatever the other
\* items bound to the channel are doing; an item that has fetched and is
\* about to classify then no longer finds the tree of its own fetch there,
\* and a classification reads the path as it is at that moment, so that an
\* item can classify what another item's fetch has deleted and not yet
\* cloned again.
C21_SharedStagingRace ==
    [][\A t \in Tasks :
          /\ (pc[t] = "clone" /\ pc'[t] = "cloning") =>
                /\ stage' \in Emptied
                /\ \A u \in Tasks \ {t} :
                      WaitsToClassify(u) =>
                         /\ WaitsToClassify(u)'
                         /\ sortClonedGitRepo(stage', cfg) # OwnClassification(cur[u])
          /\ (pc[t] = "sort" /\ pc'[t] = "resources") =>
                /\ cur'[t].chartDirs = sortClonedGitRepo(stage, cfg).chartDirs
                /\ cur'[t].rscDirs = sortClonedGitRepo(stage, cfg).resourceDirs]_vars

\* an item has classified the directory that the fetch of another item made
\* and has not cloned into yet: it found no chart and one empty resource
\* directory, not the tree it fetched
C21_Witness ==
    \E t \in Tasks, u \in Tasks :
        /\ t # u
        /\ pc[u] = "cloning"
        /\ stage = EmptyDir
        /\ pc[t] = "resources"
        /\ cur[t].gate = "open"
        /\ cur[t].dirsLeft = cur[t].rscDirs
        /\ cur[t].chartDirs = {}
        /\ cur[t].rscDirs = sortClonedGitRepo(EmptyDir, cfg).resourceDirs
        /\ cur[t].rscDirs # OwnClassification(cur[t]).resourceDirs

(***************************************************************************)
(* Properties of the package set                                           *)
(***************************************************************************)
\* the names the passes of the cycle have put into a pkgMap
HandledPackages(c) == c.rscPkgMap \cup c.chartPkgMap

\* C22: the package set of every validatePackagesInStatus call of a cycle
\* holds the name of every package either pass of the cycle has handled, the
\* deployable names of the resource pass included.
C22_PackageSetComplete ==
    \A t \in Launched :
        \A i \in CallsOf(cur[t], "validatePackagesInStatus") :
            HandledPackages(cur[t]) \subseteq cur[t].calls[i].set

(***************************************************************************)
(* Properties of the validated set                                         *)
(***************************************************************************)
\* before call i of the cycle, the listing of directory key failed
ListingFailed(c, i, key) ==
    \E j \in CallsOf(c, "readDir") : j < i /\ c.calls[j].name = key /\ ~c.calls[j].ok

\* before call i of the cycle, reading the manifest file f failed
ReadingFailed(c, i, f) ==
    \E j \in CallsOf(c, "readFile") : j < i /\ c.calls[j].name = f.fname /\ ~c.calls[j].ok

\* before call i of the cycle, the resource of manifest f was registered
RegisteredBefore(c, i, f) ==
    \E j \in ResourceRegs(c) :
        j < i /\ c.calls[j].name = ResourceDplName(cfg, f) /\ c.calls[j].ok

\* a manifest of a resource with a supported kind that passes the filters
Eligible(f) ==
    /\ f.regular
    /\ f.ext \in {".yaml", ".yml"}
    /\ f.apiVersion # ""
    /\ f.kind \in SupportedKinds
    /\ Accepted(cfg, f)

\* C23: the set given to applyValidator holds every eligible resource of the
\* resource directories of the fetched repository that was registered in the
\* pass, and also every eligible resource of a directory whose listing
\* failed and of a manifest file that could not be read: the validator is
\* never applied to a set that leaves those out.
C23_NoCollectionOnIncompleteListing ==
    \A t \in Launched :
        \A i \in CallsOf(cur[t], "applyValidator") :
            \A key \in cur[t].rscDirs, tree \in {Repo(cur[t].id)} :
                KeyExists(tree, key) =>
                    \A f \in ManifestsAt(tree, DirOfKey(tree, key)) :
                        ( /\ Eligible(f)
                          /\ \/ RegisteredBefore(cur[t], i, f)
                             \/ ListingFailed(cur[t], i, key)
                             \/ ReadingFailed(cur[t], i, f) )
                        => ResourceDplName(cfg, f) \in cur[t].calls[i].set

(***************************************************************************)
(* Liveness of the commit                                                  *)
(***************************************************************************)
\* every fetch of the item returns the content identifier X
StaysAt(X) == cur[1].id \in {0, X}

\* the stored identifier is X and the item is not in a cycle that has
\* passed the sync gate
Settled(X) == commitID = X /\ cur[1].gate # "open"

\* C24: if the item is started and never stopped, the repository stays at X
\* and every fetch, classification, registration and status call succeeds
\* (release lookups may report "not found"), then from some point on
\* ghsi.commitID is X and every cycle ends at the sync gate.
C24_EventualCommit ==
    \A X \in CommitIDs : ([]StaysAt(X)) => <>[]Settled(X)

=============================================================================
